---- MODULE Spec2Model ----
(***************************************************************************)
(* The calculator service of app.py: the POST /calculate handler (JSON     *)
(* body -> whitelist filter -> eval -> JSON response) and GET /health.     *)
(*                                                                         *)
(* Text is a sequence of one-character strings.  A Python value is a       *)
(* record [t, n, d, x]: t is the Python type, and a number is the rational *)
(* n/d (d = 1 for an int; a float with d = 0 is +-inf).  x says whether    *)
(* the IEEE-754 double is n/d exactly; if not, it is the double that the   *)
(* roundings of the computation leave next to n/d, and it is not 0.  A     *)
(* raised exception is the value [t |-> "raise", e, msg].                  *)
(***************************************************************************)
EXTENDS Integers, Sequences, FiniteSets, TLC

(* ------------------------------ bounds --------------------------------- *)

\* Longest enumerated expression text.
MaxLen == 3

\* Largest numerator / denominator the model computes with; an expression
\* whose evaluation leaves this range is not part of the model's inputs.
MaxAbs == 30000

\* Number of requests the server may be handling at the same time.
NumSlots == 2

(* ------------------------------ values --------------------------------- *)

\* A float literal whose integer part has this many significant digits is
\* at least 10^309 > DBL_MAX (about 1.8 * 10^308) and reads as inf.
FloatOverflowDigits == 310

Abs(x) == IF x < 0 THEN -x ELSE x

Sign(x) == IF x < 0 THEN -1 ELSE IF x = 0 THEN 0 ELSE 1

RECURSIVE GCD(_, _)
GCD(a, b) == IF b = 0 THEN a ELSE GCD(b, a % b)

RECURSIVE IsPow2(_)
IsPow2(d) == d = 1 \/ (d > 1 /\ d % 2 = 0 /\ IsPow2(d \div 2))

IntV(n) == [t |-> "int", n |-> n, d |-> 1, x |-> TRUE]

\* The double next to n/d, d > 0: n/d itself when its denominator in
\* lowest terms is a power of two (the numbers of the model are far below
\* 2^53).
FloatV(n, d) ==
    LET g == GCD(Abs(n), d)
    IN  [t |-> "float", n |-> n \div g, d |-> d \div g, x |-> IsPow2(d \div g)]

InfV(s) == [t |-> "float", n |-> s, d |-> 0, x |-> TRUE]

TupleV == [t |-> "tuple", n |-> 0, d |-> 1, x |-> TRUE]

EllipsisV == [t |-> "ellipsis", n |-> 0, d |-> 1, x |-> TRUE]

ComplexV == [t |-> "complex", n |-> 0, d |-> 1, x |-> TRUE]

Raise(e, m) == [t |-> "raise", e |-> e, msg |-> m]

\* An outcome the model does not compute (a number beyond MaxAbs, an
\* irrational power, arithmetic on inf or on a complex number).
Unmodelled == [t |-> "unmodelled"]

IsNumber(v) == v.t \in {"int", "float"}

IsFinite(v) == IsNumber(v) /\ v.d # 0

Stops(v) == v.t \in {"raise", "unmodelled"}

\* A complex number or an infinite float: arithmetic on it is not modelled.
Wild(v) == v.t = "complex" \/ (v.t = "float" /\ v.d = 0)

InRange(v) == IF IsNumber(v) /\ (Abs(v.n) > MaxAbs \/ v.d > MaxAbs)
              THEN Unmodelled ELSE v

\* The int n (d = 1) or the float next to n/d, computed exactly (ex) or
\* from rounded operands.
MkNum(isFloat, n, d, ex) ==
    IF Abs(n) > MaxAbs * MaxAbs \/ d > MaxAbs * MaxAbs THEN Unmodelled
    ELSE IF ~isFloat THEN InRange(IntV(n \div d))
    ELSE InRange([FloatV(n, d) EXCEPT !.x = @ /\ ex])

\* b^e for b >= 0, e >= 0, or -1 when it exceeds MaxAbs.
RECURSIVE IPow(_, _, _)
IPow(b, e, acc) ==
    IF e = 0 THEN acc
    ELSE IF b <= 1 THEN b
    ELSE IF acc * b > MaxAbs THEN -1
    ELSE IPow(b, e - 1, acc * b)

\* (n/d)^e for e >= 0.
RatPow(isFloat, n, d, e, ex) ==
    LET pn == IPow(Abs(n), e, 1)
        pd == IPow(d, e, 1)
        sg == IF n < 0 /\ e % 2 = 1 THEN -1 ELSE 1
    IN  IF pn < 0 \/ pd < 0 THEN Unmodelled ELSE MkNum(isFloat, sg * pn, pd, ex \/ e = 0)

ZeroDivision == Raise("ZeroDivisionError", "division by zero")

\* Python's a ** b on two finite numbers.  A rounded exponent next to an
\* integer may or may not be one, and a fractional power of a number above
\* 0 other than 1 is irrational: neither is modelled.
Pow(a, b) ==
    LET isFloat == a.t = "float" \/ b.t = "float"
    IN  IF b.d = 1
        THEN IF ~b.x THEN Unmodelled
             ELSE IF b.n >= 0 THEN RatPow(isFloat, a.n, a.d, b.n, a.x)
             ELSE IF a.n = 0 THEN ZeroDivision
             ELSE RatPow(TRUE, Sign(a.n) * a.d, Abs(a.n), -b.n, a.x)
        ELSE IF a.n = 0 THEN (IF b.n > 0 THEN FloatV(0, 1) ELSE ZeroDivision)
        ELSE IF a.n < 0 THEN ComplexV
        ELSE IF a.n = a.d /\ a.x THEN FloatV(1, 1)
        ELSE Unmodelled

\* floor(n/d) for d # 0.
FloorDiv(n, d) == IF d > 0 THEN n \div d ELSE (-n) \div (-d)

\* a + b or a - b, given as n/d: where rounded operands cancel, the
\* doubles may or may not, which is not modelled.
Additive(isFloat, n, d, ex) ==
    IF ~ex /\ n = 0 THEN Unmodelled ELSE MkNum(isFloat, n, d, ex)

\* Python's binary arithmetic on two finite numbers.  The floor of a
\* quotient of rounded operands that is next to an integer is not modelled.
Arith(op, a, b) ==
    LET isFloat == a.t = "float" \/ b.t = "float"
        ex == a.x /\ b.x
    IN  CASE op = "+" -> Additive(isFloat, a.n * b.d + b.n * a.d, a.d * b.d, ex)
          [] op = "-" -> Additive(isFloat, a.n * b.d - b.n * a.d, a.d * b.d, ex)
          [] op = "*" -> MkNum(isFloat, a.n * b.n, a.d * b.d,
                               ex \/ a.n = 0 \/ b.n = 0)
          [] op = "/" -> IF b.n = 0 THEN ZeroDivision
                         ELSE MkNum(TRUE, Sign(b.n) * a.n * b.d, a.d * Abs(b.n),
                                    ex \/ a.n = 0)
          [] op = "//" -> IF b.n = 0 THEN ZeroDivision
                          ELSE IF ~ex /\ a.n # 0 /\ (a.n * b.d) % Abs(a.d * b.n) = 0
                               THEN Unmodelled
                          ELSE MkNum(isFloat, FloorDiv(a.n * b.d, a.d * b.n), 1, TRUE)
          [] op = "**" -> Pow(a, b)

OpName(op) == IF op = "**" THEN "** or pow()" ELSE op

Unsupported(op, a, b) ==
    Raise("TypeError", "unsupported operand type(s) for " \o OpName(op)
                       \o ": '" \o a.t \o "' and '" \o b.t \o "'")

NotRepeat(v) ==
    Raise("TypeError", "can't multiply sequence by non-int of type '"
                       \o v.t \o "'")

NotConcat(v) ==
    Raise("TypeError", "can only concatenate tuple (not \"" \o v.t
                       \o "\") to tuple")

\* Python's a op b; an exception raised by an operand is raised first, the
\* left operand's before the right one's.
BinOp(op, a, b) ==
    IF Stops(a) THEN a
    ELSE IF Stops(b) THEN b
    ELSE IF IsFinite(a) /\ IsFinite(b) THEN Arith(op, a, b)
    ELSE IF a.t = "tuple" /\ op = "+"
         THEN IF b.t = "tuple" THEN TupleV
              ELSE IF Wild(b) THEN Unmodelled
              ELSE NotConcat(b)
    ELSE IF a.t = "tuple" /\ op = "*"
         THEN IF b.t = "int" THEN TupleV
              ELSE IF Wild(b) THEN Unmodelled
              ELSE NotRepeat(b)
    ELSE IF b.t = "tuple" /\ op = "*"
         THEN IF a.t = "int" THEN TupleV
              ELSE IF Wild(a) THEN Unmodelled
              ELSE NotRepeat(a)
    ELSE IF a.t \in {"tuple", "ellipsis"} \/ b.t \in {"tuple", "ellipsis"}
         THEN Unsupported(op, a, b)
    ELSE Unmodelled

\* Python's unary + and -.
Unary(op, v) ==
    IF Stops(v) THEN v
    ELSE IF v.t \in {"tuple", "ellipsis"}
         THEN Raise("TypeError", "bad operand type for unary " \o op
                                 \o ": '" \o v.t \o "'")
    ELSE IF op = "-" THEN [v EXCEPT !.n = -v.n]
    ELSE v

\* Python's f(), f(a), f(*a), f(**a) (star = "", "*" or "**"; a is TupleV
\* for the empty argument list): no value an expression of the whitelist
\* denotes is callable.  The text "<f> argument after * ..." is given
\* without the callee's repr.
Call(f, star, a) ==
    IF Stops(f) THEN f
    ELSE IF Stops(a) THEN a
    ELSE IF star = "*" /\ a.t # "tuple"
         THEN Raise("TypeError", "argument after * must be an iterable, not "
                                 \o a.t)
    ELSE IF star = "**"
         THEN Raise("TypeError", "argument after ** must be a mapping, not "
                                 \o a.t)
    ELSE Raise("TypeError", "'" \o f.t \o "' object is not callable")

(* ----------------------------- tokenizer ------------------------------- *)

Digits == {"0", "1", "2", "3", "4", "5", "6", "7", "8", "9"}

DigitVal(c) ==
    CASE c = "0" -> 0 [] c = "1" -> 1 [] c = "2" -> 2 [] c = "3" -> 3
      [] c = "4" -> 4 [] c = "5" -> 5 [] c = "6" -> 6 [] c = "7" -> 7
      [] c = "8" -> 8 [] c = "9" -> 9

\* The least of a nonempty set of numbers.
Least(S) == CHOOSE m \in S : \A k \in S : m <= k

\* The first index >= i of s that holds no digit.
SkipDigits(s, i) ==
    Least({j \in i..Len(s) : s[j] \notin Digits} \cup {Len(s) + 1})

\* The first index in i..j of s that holds no "0" (j at the latest).
SkipZeros(s, i, j) ==
    Least({k \in i..(j - 1) : s[k] # "0"} \cup {j})

\* The digits s[i..j-1] read after the digits read as acc, or -1 beyond
\* MaxAbs (also when acc is -1).
RECURSIVE DigitsValue(_, _, _, _)
DigitsValue(s, i, j, acc) ==
    IF acc < 0 THEN -1
    ELSE IF i >= j THEN acc
    ELSE IF acc * 10 + DigitVal(s[i]) > MaxAbs THEN -1
    ELSE DigitsValue(s, i + 1, j, acc * 10 + DigitVal(s[i]))

Token(k, v) == [k |-> k, v |-> v]

Op(k) == Token(k, IntV(0))

\* The number token of value n (d = 0: an int; else the float n/d), n or d
\* being -1 beyond MaxAbs.
NumberToken(n, d) ==
    IF n < 0 \/ d < 0 THEN Token("num", Unmodelled)
    ELSE IF d = 0 THEN Token("num", IntV(n))
    ELSE Token("num", FloatV(n, d))

\* The int literal s[i..j-1]: a nonzero literal has no leading zero.
IntLiteral(s, i, j) ==
    IF s[i] = "0" /\ SkipZeros(s, i, j) < j THEN Op("bad")
    ELSE NumberToken(DigitsValue(s, i, j, 0), 0)

\* The float literal with integer digits s[i..j-1], the point at j and
\* fraction digits s[j+1..k-1].
FloatLiteral(s, i, j, k) ==
    IF j - SkipZeros(s, i, j) >= FloatOverflowDigits THEN Token("num", InfV(1))
    ELSE NumberToken(DigitsValue(s, j + 1, k, DigitsValue(s, i, j, 0)),
                     IPow(10, k - j - 1, 1))

\* The token that starts at the digit or point s[i], its digits ending
\* before j, and the index after it.
LexAt(s, i, j) ==
    IF s[i] \in Digits
    THEN IF j <= Len(s) /\ s[j] = "."
         THEN [tok |-> FloatLiteral(s, i, j, SkipDigits(s, j + 1)),
               next |-> SkipDigits(s, j + 1)]
         ELSE [tok |-> IntLiteral(s, i, j), next |-> j]
    ELSE IF i + 1 <= Len(s) /\ s[i + 1] \in Digits
         THEN [tok |-> FloatLiteral(s, i, i, j), next |-> j]
    ELSE IF i + 2 <= Len(s) /\ s[i + 1] = "." /\ s[i + 2] = "."
         THEN [tok |-> Op("..."), next |-> i + 3]
    ELSE [tok |-> Op("."), next |-> i + 1]

\* The token that starts at s[i], and the index after it; "bad" is a
\* token the tokenizer rejects.
Lex(s, i) ==
    IF s[i] \in Digits THEN LexAt(s, i, SkipDigits(s, i))
    ELSE IF s[i] = "." THEN LexAt(s, i, SkipDigits(s, i + 1))
    ELSE IF s[i] \in {"*", "/"} /\ i + 1 <= Len(s) /\ s[i + 1] = s[i]
         THEN [tok |-> Op(s[i] \o s[i]), next |-> i + 2]
    ELSE IF s[i] \in {"+", "-", "*", "/", "(", ")"}
         THEN [tok |-> Op(s[i]), next |-> i + 1]
    ELSE [tok |-> Op("bad"), next |-> i + 1]

\* Python's tokens of s[i..], after the tokens acc.
RECURSIVE TokenizeFrom(_, _, _)
TokenizeFrom(s, i, acc) ==
    IF i > Len(s) THEN acc
    ELSE IF s[i] = " " THEN TokenizeFrom(s, i + 1, acc)
    ELSE TokenizeFrom(s, Lex(s, i).next, Append(acc, Lex(s, i).tok))

Tokenize(s) == TokenizeFrom(s, 1, << >>)

(* ------------------------------- parser -------------------------------- *)

(***************************************************************************)
(* Python's expression grammar over the tokens of the whitelist,           *)
(*     sum:     sum ('+' | '-') term | term                                *)
(*     term:    term ('*' | '/' | '//') factor | factor                    *)
(*     factor:  ('+' | '-') factor | power                                 *)
(*     power:   primary ['**' factor]                                      *)
(*     primary: primary '(' [sum | '*' sum | '**' sum] ')' | atom          *)
(*     atom:    NUMBER | '...' | '(' ')' | '(' sum ')'                     *)
(* parsed by operator precedence with a stack of values and a stack of     *)
(* pending operators and open parentheses.  A value is computed when its   *)
(* operator is reduced; an operand that raised is passed on by BinOp,      *)
(* Unary and Call, the leftmost first, which is Python's evaluation order. *)
(***************************************************************************)

\* The parser's state: the two stacks; expect: an operand is due; fresh:
\* the last token opened a parenthesis; ok: no syntax error so far; arith:
\* only literals, + - * /, unary signs and grouping parentheses were used.
StartState ==
    [vals |-> << >>, ops |-> << >>, expect |-> TRUE, fresh |-> FALSE,
     ok |-> TRUE, arith |-> TRUE]

Top(stack) == IF stack = << >> THEN "" ELSE stack[Len(stack)]

Pop(stack) == SubSeq(stack, 1, Len(stack) - 1)

\* Binding strength of a pending operator; an open parenthesis has none.
Prec(op) ==
    CASE op \in {"+", "-"} -> 1
      [] op \in {"*", "/", "//"} -> 2
      [] op \in {"u+", "u-"} -> 3
      [] op = "**" -> 4
      [] OTHER -> 0

\* The topmost pending operator applied to the topmost values.
ApplyTop(st) ==
    LET op == Top(st.ops)
        n == Len(st.vals)
    IN  IF op \in {"u+", "u-"}
        THEN [st EXCEPT !.ops = Pop(@),
                        !.vals = Append(Pop(@), Unary(IF op = "u-" THEN "-" ELSE "+",
                                                      st.vals[n]))]
        ELSE [st EXCEPT !.ops = Pop(@),
                        !.vals = Append(SubSeq(@, 1, n - 2),
                                        BinOp(op, st.vals[n - 1], st.vals[n]))]

\* The pending operators that bind at least as strongly as p, applied.
RECURSIVE ReduceTo(_, _)
ReduceTo(st, p) ==
    IF Prec(Top(st.ops)) < p THEN st ELSE ReduceTo(ApplyTop(st), p)

SyntaxError(st) == [st EXCEPT !.ok = FALSE]

\* An operand (an atom) is pushed.
Operand(st, v, arith) ==
    [st EXCEPT !.vals = Append(@, v), !.expect = FALSE, !.fresh = FALSE,
               !.arith = @ /\ arith]

\* The star of the argument of the call that `open` opened.
Star(open) == IF open = "call*" THEN "*" ELSE IF open = "call**" THEN "**" ELSE ""

\* A ')' after the pending operators were applied, leaving r: the group
\* or the call it closes.
CloseReduced(r) ==
    IF Top(r.ops) = "(" THEN [r EXCEPT !.ops = Pop(@)]
    ELSE IF Top(r.ops) \in {"call", "call*", "call**"}
         THEN [r EXCEPT !.ops = Pop(@),
                        !.vals = Append(SubSeq(@, 1, Len(@) - 2),
                                        Call(@[Len(@) - 1], Star(Top(r.ops)),
                                             @[Len(@)]))]
    ELSE SyntaxError(r)

\* A ')' where an operand has just ended.
Close(st) == CloseReduced(ReduceTo(st, 1))

\* The parser's state after the token tok.
Feed(st, tok) ==
    LET k == tok.k
        open == Top(st.ops)
    IN  IF st.expect
        THEN CASE k = "num" -> Operand(st, tok.v, TRUE)
               [] k = "..." -> Operand(st, EllipsisV, FALSE)
               [] k \in {"+", "-"} ->
                    [st EXCEPT !.ops = Append(@, "u" \o k), !.fresh = FALSE]
               [] k = "(" -> [st EXCEPT !.ops = Append(@, "("), !.fresh = TRUE]
               [] k \in {"*", "**"} /\ st.fresh /\ open = "call" ->
                    [st EXCEPT !.ops = Append(Pop(@), "call" \o k), !.fresh = FALSE]
               [] k = ")" /\ st.fresh /\ open = "(" ->
                    Operand([st EXCEPT !.ops = Pop(@)], TupleV, FALSE)
               [] k = ")" /\ st.fresh /\ open = "call" ->
                    [st EXCEPT !.ops = Pop(@),
                               !.vals = Append(Pop(@), Call(Top(st.vals), "", TupleV)),
                               !.expect = FALSE, !.fresh = FALSE]
               [] OTHER -> SyntaxError(st)
        ELSE CASE k \in {"+", "-", "*", "/", "//"} ->
                    [ReduceTo(st, Prec(k)) EXCEPT !.ops = Append(@, k),
                                                  !.expect = TRUE,
                                                  !.arith = @ /\ k # "//"]
               [] k = "**" ->
                    [st EXCEPT !.ops = Append(@, k), !.expect = TRUE, !.arith = FALSE]
               [] k = "(" ->
                    [st EXCEPT !.ops = Append(@, "call"), !.expect = TRUE,
                               !.fresh = TRUE, !.arith = FALSE]
               [] k = ")" -> Close(st)
               [] OTHER -> SyntaxError(st)

\* The parser's state after the tokens toks[p..].
RECURSIVE Shunt(_, _, _)
Shunt(toks, p, st) ==
    IF ~st.ok \/ p > Len(toks) THEN st ELSE Shunt(toks, p + 1, Feed(st, toks[p]))

\* A parse: ok, the value of the text, and whether it is plain arithmetic.
Parsed(v, a) == [ok |-> TRUE, val |-> v, arith |-> a]

Fail == [ok |-> FALSE, val |-> Unmodelled, arith |-> FALSE]

\* The parse that ends with the pending operators applied, leaving r: no
\* parenthesis is open.
Reduced(r) == IF r.ops = << >> THEN Parsed(r.vals[1], r.arith) ELSE Fail

\* The parse that ends in state st: no operand is due.
Finish(st) == IF st.ok /\ ~st.expect THEN Reduced(ReduceTo(st, 1)) ELSE Fail

\* The parse of the tokens toks.
ParseTokens(toks) ==
    IF \E i \in 1..Len(toks) : toks[i].k = "bad" THEN Fail
    ELSE Finish(Shunt(toks, 1, StartState))

\* The parse of the whole text s.
ParseText(s) == ParseTokens(Tokenize(s))

InvalidSyntax == Raise("SyntaxError", "invalid syntax")

\* The value of a parse, or SyntaxError.
ValueOf(parse) == IF parse.ok THEN parse.val ELSE InvalidSyntax

\* eval(s) for a text s: its value, or the exception it raises.
EvalText(s) == ValueOf(ParseText(s))

(* ----------------------------- JSON values ----------------------------- *)

\* What request.get_json() yields or a response carries: a JSON value, by
\* kind j.  An object is its record of members.
JNull == [j |-> "null"]

JBool(b) == [j |-> "bool", b |-> b]

JNum(n, d) == [j |-> "num", n |-> n, d |-> d]

JStr(s) == [j |-> "str", s |-> s]

JList(items) == [j |-> "list", items |-> items]

JObj(f) == [j |-> "obj", f |-> f]

\* A body get_json() cannot decode: it raises BadRequest.
Malformed == [j |-> "malformed"]

\* A local the handler has not assigned.
Unset == [j |-> "unset"]

\* type(v).__name__ of the Python object a JSON value decodes to.
PyType(v) ==
    CASE v.j = "null" -> "NoneType" [] v.j = "bool" -> "bool"
      [] v.j = "num" -> IF v.d = 1 THEN "int" ELSE "float"
      [] v.j = "str" -> "str" [] v.j = "list" -> "list" [] v.j = "obj" -> "dict"

\* Python's truth value of a decoded JSON value (what `not expression` negates).
Truthy(v) ==
    CASE v.j = "null" -> FALSE
      [] v.j = "bool" -> v.b
      [] v.j = "num" -> v.n # 0
      [] v.j = "str" -> Len(v.s) > 0
      [] v.j = "list" -> Len(v.items) > 0
      [] v.j = "obj" -> DOMAIN v.f # {}

(* ------------------------------ handler -------------------------------- *)

\* A faulty whitelist, for the sensitivity of C2: it lets a letter through.
allowed_chars_WithLetter ==
    {"0", "1", "2", "3", "4", "5", "6", "7", "8", "9",
     "+", "-", "*", "/", ".", "(", ")", " ", "a"}

allowed_chars == {"0", "1", "2", "3", "4", "5", "6", "7", "8", "9",
                  "+", "-", "*", "/", ".", "(", ")", " "}

\* request.get_json(): the decoded body, or BadRequest.
get_json(body) ==
    IF body.j = "malformed"
    THEN Raise("BadRequest", "400 Bad Request: The browser (or proxy) sent a request that this server could not understand.")
    ELSE body

\* data.get('expression', ''): only a dict has get.
GetExpression(data) ==
    IF data.j # "obj"
    THEN Raise("AttributeError", "'" \o PyType(data) \o "' object has no attribute 'get'")
    ELSE IF "expression" \in DOMAIN data.f THEN data.f.expression
    ELSE JStr(<< >>)

\* A Python bool, as a value.
BoolV(b) == [t |-> "bool", b |-> b]

\* c in allowed_chars for an item c of a list: a list or dict cannot be
\* hashed; anything else but a one-character text of the set is not in it.
ItemAllowed(c) ==
    IF c.j \in {"list", "obj"}
    THEN Raise("TypeError", "unhashable type: '" \o PyType(c) \o "'")
    ELSE BoolV(c.j = "str" /\ Len(c.s) = 1 /\ c.s[1] \in allowed_chars)

\* all(c in allowed_chars for c in items[i..]), stopping at the first item
\* that is not allowed or cannot be looked up.
RECURSIVE AllItemsAllowed(_, _)
AllItemsAllowed(items, i) ==
    LET r == ItemAllowed(items[i])
    IN  IF i > Len(items) THEN BoolV(TRUE)
        ELSE IF r.t = "bool" /\ r.b THEN AllItemsAllowed(items, i + 1)
        ELSE r

\* all(c in allowed_chars for c in expression): a bool, or TypeError.
\* A text yields its characters, a list its items, a dict its keys; a
\* number or a boolean yields nothing to iterate.
AllAllowed(expression) ==
    CASE expression.j = "str" ->
           BoolV(\A i \in 1..Len(expression.s) : expression.s[i] \in allowed_chars)
      [] expression.j = "list" -> AllItemsAllowed(expression.items, 1)
      [] expression.j = "obj" -> BoolV(DOMAIN expression.f \subseteq allowed_chars)
      [] OTHER -> Raise("TypeError", "'" \o PyType(expression)
                                     \o "' object is not iterable")

\* eval(expression).
Eval(expression) ==
    IF expression.j = "str" THEN EvalText(expression.s)
    ELSE Raise("TypeError", "eval() arg 1 must be a string, bytes or code object")

\* A faulty infinity test, for the sensitivity of C4: it misses -inf.
IsInf_PositiveOnly(result) == result.t = "float" /\ result.d = 0 /\ result.n > 0

\* isinstance(result, float) and (result == inf or result == -inf)
IsInf(result) == result.t = "float" /\ result.d = 0 /\ result.n # 0

\* What jsonify writes for `result`: a number, [] for the empty tuple, or
\* TypeError for an object JSON has no form for.
Serialize(result) ==
    IF IsNumber(result) THEN JNum(result.n, result.d)
    ELSE IF result.t = "tuple" THEN JList(<< >>)
    ELSE Raise("TypeError", "Object of type " \o result.t
                            \o " is not JSON serializable")

\* A response: the JSON object of its body and the HTTP status.
Response(body, status) == [body |-> body, status |-> status]

NoResponse == Response(<< >>, 0)

ResultResponse(json) == Response([result |-> json], 200)

\* A faulty error return, for the sensitivity of C6: the status is left
\* out of the return statement and Flask sends 200.
ErrorResponse_DefaultStatus(msg, status) == Response([error |-> msg], 200)

ErrorResponse(msg, status) == Response([error |-> msg], status)

\* Every exception raised here is an instance of Exception.
IsException(exc) ==
    exc.e \in {"BadRequest", "AttributeError", "TypeError", "SyntaxError",
               "ZeroDivisionError"}

\* A fault no except clause caught: it leaves calculate().
Propagated(exc) == Response([fault |-> exc.e], -1)

\* A handler without the outer try, for the sensitivity of C7.
OuterExcept_Missing(exc) == Propagated(exc)

\* The except clauses of the outer try.
OuterExcept(exc) ==
    IF IsException(exc) THEN ErrorResponse("Server error: " \o exc.msg, 500)
    ELSE Propagated(exc)

\* An inner try without its last clause, for the sensitivity of C8: what
\* is neither a division by zero nor a syntax error goes to the outer try.
InnerExcept_NoCatchAll(exc) ==
    IF exc.e = "ZeroDivisionError" THEN ErrorResponse("Division by zero", 400)
    ELSE IF exc.e = "SyntaxError" THEN ErrorResponse("Invalid expression syntax", 400)
    ELSE OuterExcept(exc)

\* The except clauses of the inner try, in order.
InnerExcept(exc) ==
    IF exc.e = "ZeroDivisionError" THEN ErrorResponse("Division by zero", 400)
    ELSE IF exc.e = "SyntaxError" THEN ErrorResponse("Invalid expression syntax", 400)
    ELSE IF IsException(exc) THEN ErrorResponse(exc.msg, 400)
    ELSE OuterExcept(exc)

(* ------------------------------- inputs -------------------------------- *)

\* The characters of the enumerated expression texts: some of the
\* whitelist, and a letter.
Alphabet == {"0", "1", "+", "-", "*", "/", ".", "(", ")", " ", "a"}

\* A float literal of FloatOverflowDigits integer digits: 1000...0.
HugeLiteral ==
    [i \in 1..(FloatOverflowDigits + 1) |->
        IF i = 1 THEN "1" ELSE IF i = FloatOverflowDigits + 1 THEN "." ELSE "0"]

\* Longer expression texts.
Examples ==
    { << "2", "+", "2" >>,
      << "2", "*", "(", "3", "+", "4", ")" >>,
      << "(", "(", "1", "+", "2", ")" >>,
      << "7", "/", "/", "2" >>,
      << "(", "-", "1", ")", "*", "*", ".", "5" >>,
      << "(", ")", "+", "(", ")" >>,
      << "1", "(", "1", "/", "0", ")" >>,
      << "1", "/", "0", "+", "a" >>,
      << "1", "0", "0", "0", "0", "0", "0", "0", "0", "0", "0" >>,
      HugeLiteral,
      << "-" >> \o HugeLiteral }

\* The expression texts of the model: the enumerated and the longer ones
\* whose evaluation the model computes.
Texts ==
    { s \in UNION { [1..k -> Alphabet] : k \in 0..MaxLen } \cup Examples :
        EvalText(s).t # "unmodelled" }

\* Request bodies whose `expression` is no text, or that are no object.
OddBodies ==
    { Malformed, JNull, JNum(7, 1), JStr(<< "1" >>), JList(<< >>),
      JObj(<< >>), JObj([other |-> JStr(<< "1" >>)]) }
    \cup { JObj([expression |-> e]) :
             e \in { JNull, JBool(FALSE), JBool(TRUE), JNum(0, 1), JNum(5, 1),
                     JList(<< >>), JList(<< JStr(<< "1" >>) >>),
                     JList(<< JStr(<< "1" >>), JStr(<< "a" >>) >>),
                     JList(<< JNum(1, 1) >>), JList(<< JStr(<< "1", "1" >>) >>),
                     JList(<< JList(<< >>) >>),
                     JList(<< JStr(<< "a" >>), JList(<< >>) >>),
                     JObj(<< >>), JObj([a |-> JNull]),
                     JObj([x \in {"1", "+"} |-> JNull]) } }

\* The request bodies a single client sends.
Bodies == { JObj([expression |-> JStr(s)]) : s \in Texts } \cup OddBodies

\* The request bodies of concurrent clients.
ServerBodies ==
    { Malformed, JObj(<< >>), JObj([expression |-> JNum(5, 1)]) }
    \cup { JObj([expression |-> JStr(s)]) :
             s \in { << "a" >>, << "(", ")" >>, << "1", "/", "0" >>,
                     << "2", "+", "2" >> } }

(* ---------------------------- state machine ---------------------------- *)

Slots == 1..NumSlots

VARIABLES
    pc,          \* per slot: the line calculate() is at, "idle" or "done"
    request,     \* per slot: the body of the request of that context
    data,        \* per slot: the local `data`
    expression,  \* per slot: the local `expression`
    result,      \* per slot: the local `result`
    response,    \* per slot: what calculate() returned
    evaluated,   \* per slot: whether eval() was called
    failed,      \* whether a /calculate response with status 400 or 500 was sent
    health       \* the last /health response, with `failed` when it was made

vars == << pc, request, data, expression, result, response, evaluated,
           failed, health >>

NoValue == [t |-> "unset"]

NoHealth == [body |-> << >>, status |-> 0, afterFailure |-> FALSE]

Init ==
    /\ pc = [s \in Slots |-> "idle"]
    /\ request = [s \in Slots |-> Unset]
    /\ data = [s \in Slots |-> Unset]
    /\ expression = [s \in Slots |-> Unset]
    /\ result = [s \in Slots |-> NoValue]
    /\ response = [s \in Slots |-> NoResponse]
    /\ evaluated = [s \in Slots |-> FALSE]
    /\ failed = FALSE
    /\ health = NoHealth

\* A request kept in one place for all contexts, for the sensitivity of
\* C9: the handler sees the request of whichever context holds one.
CurrentRequest_Shared(s) == request[CHOOSE t \in Slots : pc[t] # "idle"]

\* The `request` that calculate() running in slot s sees: the request of
\* its own context.
CurrentRequest(s) == request[s]

\* Whether v is an exception raised rather than a value.
Raised(v) == "e" \in DOMAIN v

\* calculate() in slot s returns r.
Return(s, r) ==
    /\ response' = [response EXCEPT ![s] = r]
    /\ pc' = [pc EXCEPT ![s] = "done"]

\* A request with a body of B arrives and calculate() is entered.
Receive(s, B) ==
    /\ pc[s] = "idle"
    /\ \E b \in B : request' = [request EXCEPT ![s] = b]
    /\ pc' = [pc EXCEPT ![s] = "get_json"]
    /\ UNCHANGED << data, expression, result, response, evaluated, failed, health >>

\* data = request.get_json()
GetJson(s) ==
    /\ pc[s] = "get_json"
    /\ LET d == get_json(CurrentRequest(s))
       IN  IF Raised(d)
           THEN Return(s, OuterExcept(d)) /\ UNCHANGED data
           ELSE /\ data' = [data EXCEPT ![s] = d]
                /\ pc' = [pc EXCEPT ![s] = "get"]
                /\ UNCHANGED response
    /\ UNCHANGED << request, expression, result, evaluated, failed, health >>

\* expression = data.get('expression', '')
GetField(s) ==
    /\ pc[s] = "get"
    /\ LET e == GetExpression(data[s])
       IN  IF Raised(e)
           THEN Return(s, OuterExcept(e)) /\ UNCHANGED expression
           ELSE /\ expression' = [expression EXCEPT ![s] = e]
                /\ pc' = [pc EXCEPT ![s] = "empty"]
                /\ UNCHANGED response
    /\ UNCHANGED << request, data, result, evaluated, failed, health >>

\* if not expression: return jsonify({'error': 'Empty expression'}), 400
CheckEmpty(s) ==
    /\ pc[s] = "empty"
    /\ IF ~Truthy(expression[s])
       THEN Return(s, ErrorResponse("Empty expression", 400))
       ELSE pc' = [pc EXCEPT ![s] = "chars"] /\ UNCHANGED response
    /\ UNCHANGED << request, data, expression, result, evaluated, failed, health >>

\* if not all(c in allowed_chars for c in expression): return ..., 400
CheckChars(s) ==
    /\ pc[s] = "chars"
    /\ LET ok == AllAllowed(expression[s])
       IN  IF Raised(ok) THEN Return(s, OuterExcept(ok))
           ELSE IF ~ok.b
                THEN Return(s, ErrorResponse("Invalid characters in expression", 400))
           ELSE pc' = [pc EXCEPT ![s] = "eval"] /\ UNCHANGED response
    /\ UNCHANGED << request, data, expression, result, evaluated, failed, health >>

\* eval() in slot s yields r: a value for `result`, or an exception for
\* the except clauses of the inner try.
Evaluated(s, r) ==
    IF Raised(r)
    THEN Return(s, InnerExcept(r)) /\ UNCHANGED result
    ELSE /\ result' = [result EXCEPT ![s] = r]
         /\ pc' = [pc EXCEPT ![s] = "inf"]
         /\ UNCHANGED response

\* result = eval(expression)
Evaluate(s) ==
    /\ pc[s] = "eval"
    /\ evaluated' = [evaluated EXCEPT ![s] = TRUE]
    /\ Evaluated(s, Eval(expression[s]))
    /\ UNCHANGED << request, data, expression, failed, health >>

\* if isinstance(result, float) and (result == inf or result == -inf): ...
CheckInf(s) ==
    /\ pc[s] = "inf"
    /\ IF IsInf(result[s])
       THEN Return(s, ErrorResponse("Division by zero", 400))
       ELSE pc' = [pc EXCEPT ![s] = "jsonify"] /\ UNCHANGED response
    /\ UNCHANGED << request, data, expression, result, evaluated, failed, health >>

\* return jsonify({'result': result}), inside the inner try
Jsonify(s) ==
    /\ pc[s] = "jsonify"
    /\ LET json == Serialize(result[s])
       IN  IF Raised(json) THEN Return(s, InnerExcept(json))
           ELSE Return(s, ResultResponse(json))
    /\ UNCHANGED << request, data, expression, result, evaluated, failed, health >>

\* The response is sent and the request's context and locals are gone.
Respond(s) ==
    /\ pc[s] = "done"
    /\ failed' = (failed \/ response[s].status \in {400, 500})
    /\ pc' = [pc EXCEPT ![s] = "idle"]
    /\ request' = [request EXCEPT ![s] = Unset]
    /\ data' = [data EXCEPT ![s] = Unset]
    /\ expression' = [expression EXCEPT ![s] = Unset]
    /\ result' = [result EXCEPT ![s] = NoValue]
    /\ response' = [response EXCEPT ![s] = NoResponse]
    /\ evaluated' = [evaluated EXCEPT ![s] = FALSE]
    /\ UNCHANGED health

\* A health check that looks at past failures, for the sensitivity of C10.
HealthResponse_Degraded ==
    IF failed THEN Response([status |-> "unhealthy"], 503)
    ELSE Response([status |-> "healthy"], 200)

\* What health() returns.
HealthResponse == Response([status |-> "healthy"], 200)

\* GET /health
Health ==
    /\ health' = [body |-> HealthResponse.body, status |-> HealthResponse.status,
                  afterFailure |-> failed]
    /\ UNCHANGED << pc, request, data, expression, result, response,
                    evaluated, failed >>

\* One step of calculate() in slot s.
Step(s) ==
    \/ GetJson(s)
    \/ GetField(s)
    \/ CheckEmpty(s)
    \/ CheckChars(s)
    \/ Evaluate(s)
    \/ CheckInf(s)
    \/ Jsonify(s)
    \/ Respond(s)

\* One client: a request at a time, any body.
Next ==
    \/ Receive(1, Bodies)
    \/ Step(1)

Spec == Init /\ [][Next]_vars

\* The server: concurrent requests and health checks.
NextServer ==
    \/ \E s \in Slots : Receive(s, ServerBodies)
    \/ \E s \in Slots : Step(s)
    \/ Health

SpecServer == Init /\ [][NextServer]_vars

(* ------------------------------- claims -------------------------------- *)

Done(s) == pc[s] = "done"

\* The request body is a JSON object whose `expression` is a text.
IsTextRequest(b) ==
    b.j = "obj" /\ "expression" \in DOMAIN b.f /\ b.f.expression.j = "str"

TextOf(b) == b.f.expression.s

\* The request body is a JSON object without an `expression` member.
NoExpressionField(b) == b.j = "obj" /\ "expression" \notin DOMAIN b.f

OnlySpaces(t) == Len(t) > 0 /\ \A i \in 1..Len(t) : t[i] = " "

\* The whitelist as the specification states it.
Whitelist == Digits \cup {"+", "-", "*", "/", ".", "(", ")", " "}

Whitelisted(t) == \A i \in 1..Len(t) : t[i] \in Whitelist

EmptyExpression == ErrorResponse("Empty expression", 400)

InvalidCharacters == ErrorResponse("Invalid characters in expression", 400)

InvalidSyntaxError == ErrorResponse("Invalid expression syntax", 400)

DivisionByZero == ErrorResponse("Division by zero", 400)

\* C1: a request whose object has no `expression`, or whose
\* `expression` is the empty text or consists only of spaces, is answered
\* 400 'Empty expression' and eval is not called.
C1_EmptyExpression ==
    \A s \in Slots :
        Done(s) /\ ( \/ NoExpressionField(request[s])
                     \/ /\ IsTextRequest(request[s])
                        /\ \/ TextOf(request[s]) = << >>
                           \/ OnlySpaces(TextOf(request[s])) )
        => response[s] = EmptyExpression /\ ~evaluated[s]

\* An `expression` that is not empty and holds whitelisted characters
\* only: the characters of a text, the items of a list, the keys of a dict.
WhitelistedOnly(e) ==
    CASE e.j = "str" -> e.s # << >> /\ Whitelisted(e.s)
      [] e.j = "list" ->
           /\ e.items # << >>
           /\ \A i \in 1..Len(e.items) :
                 /\ e.items[i].j = "str"
                 /\ Len(e.items[i].s) = 1
                 /\ e.items[i].s[1] \in Whitelist
      [] e.j = "obj" -> DOMAIN e.f # {} /\ DOMAIN e.f \subseteq Whitelist
      [] OTHER -> FALSE

\* C2: a non-empty text with a character outside the whitelist is answered
\* 400 'Invalid characters in expression', and eval is called only on an
\* expression that is not empty and holds whitelisted characters only.
C2_WhitelistBeforeEval ==
    \A s \in Slots :
        /\ Done(s) /\ IsTextRequest(request[s]) /\ TextOf(request[s]) # << >>
              /\ ~Whitelisted(TextOf(request[s]))
           => response[s] = InvalidCharacters
        /\ evaluated[s]
           => /\ request[s].j = "obj"
              /\ "expression" \in DOMAIN request[s].f
              /\ WhitelistedOnly(request[s].f.expression)

C2_Witness ==
    \E s \in Slots :
        /\ Done(s) /\ IsTextRequest(request[s])
        /\ TextOf(request[s]) = << "1", "/", "0", "+", "a" >>
        /\ response[s] = InvalidCharacters /\ ~evaluated[s]

\* The text is arithmetic: literals, + - * /, unary signs and parentheses.
WellFormed(t) == ParseText(t).ok /\ ParseText(t).arith

\* C3: a whitelisted text that is well-formed arithmetic with
\* a finite value is answered 200 with that value ('2+2' with 4,
\* '2*(3+4)' with 14), and a 200 response carries a number.
C3_NumericResult ==
    \A s \in Slots :
        Done(s) =>
            /\ response[s].status = 200 => response[s].body.result.j = "num"
            /\ IsTextRequest(request[s]) /\ Whitelisted(TextOf(request[s]))
                  /\ WellFormed(TextOf(request[s]))
                  /\ IsFinite(ParseText(TextOf(request[s])).val)
               => /\ response[s].status = 200
                  /\ response[s].body.result.n = ParseText(TextOf(request[s])).val.n
                  /\ response[s].body.result.d = ParseText(TextOf(request[s])).val.d
            /\ IsTextRequest(request[s]) /\ TextOf(request[s]) = << "2", "+", "2" >>
               => response[s] = ResultResponse(JNum(4, 1))
            /\ IsTextRequest(request[s])
                  /\ TextOf(request[s]) = << "2", "*", "(", "3", "+", "4", ")" >>
               => response[s] = ResultResponse(JNum(14, 1))

\* C4: a whitelisted text whose evaluation raises ZeroDivisionError, or
\* yields inf or -inf, is answered 400 'Division by zero'.
C4_DivisionByZero ==
    \A s \in Slots :
        Done(s) /\ IsTextRequest(request[s]) /\ TextOf(request[s]) # << >>
           /\ Whitelisted(TextOf(request[s]))
           /\ \/ /\ Raised(EvalText(TextOf(request[s])))
                 /\ EvalText(TextOf(request[s])).e = "ZeroDivisionError"
              \/ /\ ~Raised(EvalText(TextOf(request[s])))
                 /\ EvalText(TextOf(request[s])).t = "float"
                 /\ EvalText(TextOf(request[s])).d = 0
        => response[s] = DivisionByZero

C4_Witness ==
    \E s \in Slots :
        /\ Done(s) /\ result[s] = InfV(-1)
        /\ response[s] = DivisionByZero

\* The text without its spaces.
NoSpaces(t) == SelectSeq(t, LAMBDA c : c # " ")

\* The parentheses of u do not match.
Unbalanced(u) ==
    LET depth(i) == Cardinality({k \in 1..i : u[k] = "("})
                    - Cardinality({k \in 1..i : u[k] = ")"})
    IN  depth(Len(u)) # 0 \/ \E i \in 1..Len(u) : depth(i) < 0

TrailingOperator(u) == u # << >> /\ u[Len(u)] \in {"+", "-", "*", "/"}

EmptySubExpression(u) ==
    \E i \in 1..(Len(u) - 1) : u[i] = "(" /\ u[i + 1] = ")"

\* Malformed for arithmetic, in the ways the specification names.
MalformedArithmetic(t) ==
    \/ Unbalanced(NoSpaces(t))
    \/ TrailingOperator(NoSpaces(t))
    \/ EmptySubExpression(NoSpaces(t))

\* C5: a whitelisted, non-empty text that is malformed for
\* arithmetic (unbalanced parentheses, a trailing operator, an empty
\* sub-expression) is answered 400 'Invalid expression syntax'.
C5_InvalidSyntax ==
    \A s \in Slots :
        Done(s) /\ IsTextRequest(request[s]) /\ TextOf(request[s]) # << >>
           /\ Whitelisted(TextOf(request[s])) /\ MalformedArithmetic(TextOf(request[s]))
        => response[s] = InvalidSyntaxError

\* C6: a response holds exactly one of `result` and `error`; `result` comes
\* with status 200 only, `error` with 400 or 500 only.
C6_ResultXorError ==
    \A s \in Slots :
        Done(s) =>
            /\ DOMAIN response[s].body \in {{"result"}, {"error"}}
            /\ "result" \in DOMAIN response[s].body => response[s].status = 200
            /\ "error" \in DOMAIN response[s].body => response[s].status \in {400, 500}

C6_Witness ==
    \E s \in Slots : Done(s) /\ DOMAIN response[s].body = {"result"}

\* The positions of a request inside calculate().
Positions == {"get_json", "get", "empty", "chars", "eval", "inf", "jsonify", "done"}

\* C7: no exception leaves calculate(): whatever fails, the handler ends
\* with one JSON response of status 200, 400 or 500; a request being
\* handled is at a position of the handler and has no response before the
\* handler returns.
C7_NothingPropagates ==
    \A s \in Slots :
        /\ Done(s) => /\ response[s].status \in {200, 400, 500}
                      /\ "fault" \notin DOMAIN response[s].body
        /\ ~Done(s) => response[s] = NoResponse
        /\ pc[s] # "idle" => pc[s] \in Positions

C7_Witness ==
    \E s \in Slots :
        /\ Done(s) /\ request[s] = Malformed
        /\ response[s].status = 500 /\ "error" \in DOMAIN response[s].body

\* The `expression` of the request is present and truthy.
HasExpression(b) ==
    b.j = "obj" /\ "expression" \in DOMAIN b.f /\ Truthy(b.f.expression)

\* An item the whitelist scan accepts: a one-character whitelisted text.
WhitelistedItem(v) == v.j = "str" /\ Len(v.s) = 1 /\ v.s[1] \in Whitelist

\* The whitelist scan cannot go through e: e is not iterable, or the scan
\* reaches an unhashable item (a list, a dict) of the list e.
Unscannable(e) ==
    \/ e.j \in {"num", "bool"}
    \/ /\ e.j = "list"
       /\ \E i \in 1..Len(e.items) :
             /\ e.items[i].j \in {"list", "obj"}
             /\ \A k \in 1..(i - 1) : WhitelistedItem(e.items[k])

\* The request fails before eval: its body is no JSON, or is JSON but no
\* object, or its `expression` cannot be scanned.
FailsOutsideEval(b) ==
    \/ b.j # "obj"
    \/ HasExpression(b) /\ Unscannable(b.f.expression)

\* What str(e) can be for the failures before eval.
OutsideDiagnostics ==
    { get_json(Malformed).msg }
    \cup { GetExpression(v).msg : v \in {JNull, JBool(TRUE), JNum(5, 1), JStr(<< "1" >>), JList(<< >>)} }
    \cup { AllAllowed(v).msg : v \in {JBool(TRUE), JNum(5, 1), JNum(3, 2), JList(<< JList(<< >>) >>), JList(<< JObj(<< >>) >>)} }

\* C8: a failure of eval other than division by zero and a syntax error is
\* answered 400 with its diagnostic; a failure before eval is answered 500
\* with 'Server error: ' put before the diagnostic; no other request is
\* answered 500.
C8_ClientServerSplit ==
    \A s \in Slots :
        Done(s) =>
            /\ evaluated[s] /\ Raised(Eval(request[s].f.expression))
                  /\ Eval(request[s].f.expression).e \notin {"ZeroDivisionError", "SyntaxError"}
               => response[s] = ErrorResponse(Eval(request[s].f.expression).msg, 400)
            /\ evaluated[s] => response[s].status # 500
            /\ response[s].status = 500 <=> FailsOutsideEval(request[s])
            /\ response[s].status = 500
               => \E m \in OutsideDiagnostics :
                     response[s].body = [error |-> "Server error: " \o m]

C8_Witness ==
    \E s \in Slots :
        /\ Done(s) /\ IsTextRequest(request[s])
        /\ TextOf(request[s]) = << "1", "(", ")" >>
        /\ response[s] = ErrorResponse("'int' object is not callable", 400)

\* The response to each of the bodies the concurrent clients send.
ExpectedResponse(b) ==
    CASE b = Malformed -> ErrorResponse("Server error: " \o get_json(Malformed).msg, 500)
      [] b = JObj(<< >>) -> EmptyExpression
      [] b = JObj([expression |-> JNum(5, 1)]) ->
            ErrorResponse("Server error: 'int' object is not iterable", 500)
      [] b = JObj([expression |-> JStr(<< "a" >>)]) -> InvalidCharacters
      [] b = JObj([expression |-> JStr(<< "(", ")" >>)]) -> ResultResponse(JList(<< >>))
      [] b = JObj([expression |-> JStr(<< "1", "/", "0" >>)]) -> DivisionByZero
      [] b = JObj([expression |-> JStr(<< "2", "+", "2" >>)]) -> ResultResponse(JNum(4, 1))

\* C9: the response to a request depends on its body only: whatever was
\* handled before and whatever is handled at the same time, a body gets its
\* one response, and two requests with the same body get equal responses.
C9_Stateless ==
    \A s \in Slots :
        Done(s) =>
            /\ response[s] = ExpectedResponse(request[s])
            /\ \A t \in Slots :
                  Done(t) /\ request[t] = request[s] => response[t] = response[s]

C9_Witness ==
    \E s, t \in Slots :
        /\ s # t /\ Done(s) /\ Done(t) /\ failed
        /\ request[s] = request[t]
        /\ response[s] = ResultResponse(JNum(4, 1))

\* C10: GET /health is answered 200 with {'status': 'healthy'}, whatever
\* /calculate was sent before or is handling, and it can always be sent.
C10_HealthAlwaysHealthy ==
    /\ health # NoHealth
       => health.status = 200 /\ health.body = [status |-> "healthy"]
    /\ ENABLED Health

C10_Witness ==
    /\ health # NoHealth /\ health.afterFailure
    /\ health.status = 200
    /\ \E s \in Slots : pc[s] \notin {"idle", "done"}

====
